---- MODULE Spec2Model ----
(***************************************************************************)
(* A.L.I.V.E: the in-process A2A event bus (adk/a2a.py), the Librarian     *)
(* coordinator (agents/librarian.py), the Probe worker (agents/probe.py),  *)
(* the file skills (adk/skills/file_tools.py), the task-id generator       *)
(* (adk/skills/task_tools.py) and the Manager (core/manager.py).           *)
(*                                                                         *)
(* A top-level step is one call made from outside the bus: A2A.send,       *)
(* A2A.on, start/stop, Manager.start/stop/submit_task, or a worker writing *)
(* its artifact.  A send runs every handler it triggers, nested sends      *)
(* included, before the step ends (the dispatch is a plain call stack).    *)
(*                                                                         *)
(* Text is a sequence of one-character or one-token strings, so that       *)
(* strip(), lower(), concatenation and the substring test are computed.    *)
(***************************************************************************)
EXTENDS Naturals, Sequences, FiniteSets

VARIABLES
    running,           \* A2A.running of each instance
    handlers,          \* A2A.handlers of each instance: event type -> list
    global_handlers,   \* A2A._global_handlers: "agent:type" -> list of (agent, handler)
    roster,            \* LibrarianAgent.roster, in file order
    active_tasks,      \* LibrarianAgent.active_tasks
    completion_queue,  \* LibrarianAgent.completion_queue
    files,             \* the logs directory: path -> text
    task_counter,      \* task_tools._task_counter
    manager_running,   \* Manager.running
    retired,           \* history: (agent, task) pairs consolidated, deleted and cleaned up
    generated,         \* history: the ids generate_task_id returned, in order
    last,              \* history: the last top-level call and how it ended
    trace              \* history: what the last top-level call did, in order

vars == << running, handlers, global_handlers, roster, active_tasks,
           completion_queue, files, task_counter, manager_running,
           retired, generated, last, trace >>

----------------------------------------------------------------------------
(* Bounds *)

MaxCounter == 2     \* ids the generator may hand out
MaxQueue == 1       \* completion-queue length a send may leave
MaxEntries == 2     \* aggregate entries a send may leave
MaxArtifacts == 1   \* temp artifacts a worker may leave lying at once
MaxSystemEntries == 4   \* aggregate entries a send may leave, whole system
MaxRegs == 3        \* handler registrations on the bus
MaxChainTasks == 1  \* tasks submitted, and aggregate entries, in SpecChain

----------------------------------------------------------------------------
(* Names *)

Instances == {"manager", "librarian", "probe"}
WorkerIds == {"probe", "writer"}
EventTypes == {"NEW_TASK", "DELEGATED_TASK", "TASK_COMPLETE", "PING"}
NoneVal == "<None>"
IdTable == << "TASK-001", "TASK-002", "TASK-003", "TASK-004", "TASK-005" >>
TaskIds == { IdTable[1] }

Whitespace == {" ", "\n"}
Header == << "# Active Specification", "\n", "\n" >>
ProbeContent == << "# Probe Agent Report", "\n" >>
BlankContent == << " " >>
BodyContent == << " ", "Report body" >>

ActiveSpecPath == << "active_spec.md" >>
SpecPath(agent_id, task_id) == << agent_id, "_", task_id, "_spec.md" >>

----------------------------------------------------------------------------
(* Text: str.strip(), the `in` substring test *)

RECURSIVE LStrip(_)
LStrip(t) ==
    IF t # << >> /\ Head(t) \in Whitespace THEN LStrip(Tail(t)) ELSE t

RECURSIVE RStrip(_)
RStrip(t) ==
    IF t # << >> /\ t[Len(t)] \in Whitespace
    THEN RStrip(SubSeq(t, 1, Len(t) - 1))
    ELSE t

\* A faulty variant: nothing is trimmed.
StripNothing(t) == t

Strip(t) == RStrip(LStrip(t))

IsSubstring(a, b) ==
    \E i \in 0..Len(b) : i + Len(a) <= Len(b) /\ SubSeq(b, i + 1, i + Len(a)) = a

----------------------------------------------------------------------------
(* The state a call works on.  err is the exception in flight ("none" when *)
(* there is none), ret the value the last helper returned, fault the       *)
(* Storage operation that fails during this top-level call.                *)

NoFault == << "none", "none" >>
Faults ==
    { NoFault,
      << "read_spec", "raise" >>,  << "read_active", "raise" >>,
      << "write_active", "raise" >>, << "write_active", "trunc" >>,
      << "write_active", "lost" >>, << "read_verify", "raise" >>,
      << "delete_spec", "raise" >>, << "write_spec", "raise" >> }

Log(s, e) == [s EXCEPT !.trace = Append(@, e)]
Raise(s, e) == [s EXCEPT !.err = e]
Caught(s) == [s EXCEPT !.err = "none"]
Return(s, v) == [s EXCEPT !.ret = v]

Get(m, k) == IF k \in DOMAIN m THEN m[k] ELSE NoneVal
\* A faulty variant: only a missing value counts, an empty one passes.
FalsyWhenMissing(v) == v = NoneVal

Falsy(v) == v \in {NoneVal, ""}

----------------------------------------------------------------------------
(* adk/skills/file_tools.py *)

Exists(s, path) == path \in DOMAIN s.files

ReadFile(s, path, site) ==
    LET s1 == Log(s, << "fs_read" >> \o path) IN
    IF ~Exists(s, path) THEN Raise(s1, "FileNotFoundError")
    ELSE IF s.fault = << site, "raise" >> THEN Raise(s1, "IOError")
    ELSE Return(s1, s.files[path])

Store(f, path, content) ==
    [p \in DOMAIN f \cup {path} |-> IF p = path THEN content ELSE f[p]]

\* open(path, 'w') truncates before f.write: a fault raised by mkdir or open
\* leaves the file as it was, one raised by the write leaves it truncated.
\* "lost" is a Storage that reports success and keeps the old file.
WriteFile(s, path, content, site) ==
    LET s1 == Log(s, << "fs_write" >> \o path) IN
    IF s.fault = << site, "raise" >> THEN Raise(s1, "IOError")
    ELSE IF s.fault = << site, "trunc" >>
    THEN Raise([s1 EXCEPT !.files = Store(@, path, << >>)], "IOError")
    ELSE IF s.fault = << site, "lost" >> THEN s1
    ELSE [s1 EXCEPT !.files = Store(@, path, content)]

DeleteFile(s, path, site) ==
    LET s1 == Log(s, << "fs_delete" >> \o path) IN
    IF ~Exists(s, path) THEN Raise(s1, "FileNotFoundError")
    ELSE IF s.fault = << site, "raise" >> THEN Raise(s1, "IOError")
    ELSE [s1 EXCEPT !.files = [p \in DOMAIN @ \ {path} |-> @[p]]]

----------------------------------------------------------------------------
(* agents/librarian.py: consolidation *)

WithoutTask(q, task_id) ==
    LET Keep(item) == item.task_id # task_id IN SelectSeq(q, Keep)

\* A faulty variant: the cleanup drops only the newest queue entry, not every
\* entry for the task.
CleanupTaskDropsNewest(s, task_id) ==
    LET s1 == IF task_id \in DOMAIN s.active_tasks
              THEN Log([s EXCEPT !.active_tasks =
                            [t \in DOMAIN @ \ {task_id} |-> @[t]]],
                       << "task_del", task_id >>)
              ELSE s
        q == s1.completion_queue
    IN  Log([s1 EXCEPT !.completion_queue =
                 IF q = << >> THEN q ELSE SubSeq(q, 1, Len(q) - 1)],
            << "cleanup", task_id >>)

CleanupTask(s, task_id) ==
    LET s1 == IF task_id \in DOMAIN s.active_tasks
              THEN Log([s EXCEPT !.active_tasks =
                            [t \in DOMAIN @ \ {task_id} |-> @[t]]],
                       << "task_del", task_id >>)
              ELSE s
    IN  Log([s1 EXCEPT !.completion_queue = WithoutTask(@, task_id)],
            << "cleanup", task_id >>)

Separator(agent_id, task_id) ==
    << "\n", "\n", "---", "\n", "## Task: ", task_id, " (by ", agent_id, ")",
       "\n", "\n" >>

\* A faulty variant: content the aggregate already holds is not appended again.
AppendDeduplicated(s, content, agent_id, task_id) ==
    LET r == IF Exists(s, ActiveSpecPath)
             THEN ReadFile(s, ActiveSpecPath, "read_active")
             ELSE Return(s, Header)
    IN  IF r.err # "none" THEN r
        ELSE IF IsSubstring(Strip(content), r.ret) THEN r
        ELSE WriteFile(r, ActiveSpecPath,
                       r.ret \o Separator(agent_id, task_id) \o content \o << "\n" >>,
                       "write_active")

AppendToActiveSpec(s, content, agent_id, task_id) ==
    LET r == IF Exists(s, ActiveSpecPath)
             THEN ReadFile(s, ActiveSpecPath, "read_active")
             ELSE Return(s, Header)
    IN  IF r.err # "none" THEN r
        ELSE WriteFile(r, ActiveSpecPath,
                       r.ret \o Separator(agent_id, task_id) \o content \o << "\n" >>,
                       "write_active")

\* A faulty variant: verification never finds the content.
VerifyNothing(s, content) == Return(s, FALSE)

VerifyConsolidation(s, content) ==
    IF ~Exists(s, ActiveSpecPath) THEN Return(s, FALSE)
    ELSE LET r == ReadFile(s, ActiveSpecPath, "read_verify") IN
         IF r.err # "none" THEN r
         ELSE Return(r, IsSubstring(Strip(content), r.ret))

\* Steps 2 to 5, and the empty-content case, once the artifact is read
ConsolidateContent(s, spec_content, agent_id, task_id) ==
    LET spec_path == SpecPath(agent_id, task_id) IN
    IF Strip(spec_content) = << >>
    THEN CleanupTask(Caught(DeleteFile(Log(s, << "empty", agent_id, task_id >>),
                                       spec_path, "delete_spec")), task_id)
    ELSE
    LET a == AppendToActiveSpec(s, spec_content, agent_id, task_id) IN
    IF a.err # "none"
    THEN Log(Caught(a), << "append_failed", agent_id, task_id >>)
    ELSE
    LET v == VerifyConsolidation(Log(a, << "appended", agent_id, task_id >>),
                                 spec_content)
    IN
    IF v.err # "none" THEN v
    ELSE IF ~v.ret
    THEN CleanupTask(Log(v, << "verify_failed", agent_id, task_id >>), task_id)
    ELSE
    LET d == DeleteFile(v, spec_path, "delete_spec") IN
    IF d.err # "none"
    THEN CleanupTask(Log(Caught(d), << "delete_failed", agent_id, task_id >>), task_id)
    ELSE CleanupTask(Log([d EXCEPT !.retired = @ \cup {<< agent_id, task_id >>}],
                         << "consolidated", agent_id, task_id >>), task_id)

\* A faulty variant: an absent or unreadable artifact ends the pipeline
\* without the cleanup.
CollectWithoutCleanup(s, agent_id, task_id) ==
    LET spec_path == SpecPath(agent_id, task_id)
        s0 == Log(s, << "pipeline", agent_id, task_id >>)
    IN
    IF ~Exists(s0, spec_path) THEN Log(s0, << "absent", agent_id, task_id >>)
    ELSE
    LET r == ReadFile(s0, spec_path, "read_spec") IN
    IF r.err # "none" THEN Log(Caught(r), << "read_failed", agent_id, task_id >>)
    ELSE ConsolidateContent(r, r.ret, agent_id, task_id)

CollectAndConsolidateSpec(s, agent_id, task_id) ==
    LET spec_path == SpecPath(agent_id, task_id)
        s0 == Log(s, << "pipeline", agent_id, task_id >>)
    IN
    IF ~Exists(s0, spec_path)
    THEN CleanupTask(Log(s0, << "absent", agent_id, task_id >>), task_id)
    ELSE
    LET r == ReadFile(s0, spec_path, "read_spec") IN
    IF r.err # "none"
    THEN CleanupTask(Log(Caught(r), << "read_failed", agent_id, task_id >>), task_id)
    ELSE ConsolidateContent(r, r.ret, agent_id, task_id)

----------------------------------------------------------------------------
(* agents/librarian.py: TASK_COMPLETE *)

\* A faulty variant: the status assignment is lost.
SetStatusLost(s, task_id, status) == s

SetStatus(s, task_id, status) ==
    Log([s EXCEPT !.active_tasks[task_id].status = status],
        << "status", task_id, status >>)

\* A faulty variant: no duplicate protection.
HandleTaskCompleteAgain(s, message) ==
    LET agent_id == Get(message, "agent_id")
        task_id == Get(message, "task_id")
    IN
    IF Falsy(agent_id) \/ Falsy(task_id) THEN Log(s, << "malformed" >>)
    ELSE
    LET s1 == IF task_id \in DOMAIN s.active_tasks
              THEN SetStatus(s, task_id, "completed")
              ELSE s
        s2 == [s1 EXCEPT !.completion_queue =
                  Append(@, [agent_id |-> agent_id, task_id |-> task_id])]
    IN  CollectAndConsolidateSpec(s2, agent_id, task_id)

HandleTaskComplete(s, message) ==
    LET agent_id == Get(message, "agent_id")
        task_id == Get(message, "task_id")
    IN
    IF Falsy(agent_id) \/ Falsy(task_id) THEN Log(s, << "malformed" >>)
    ELSE IF task_id \in DOMAIN s.active_tasks
            /\ s.active_tasks[task_id].status = "completed"
    THEN Log(s, << "dup_ignored", task_id >>)
    ELSE
    LET s1 == IF task_id \in DOMAIN s.active_tasks
              THEN SetStatus(s, task_id, "completed")
              ELSE s
        s2 == [s1 EXCEPT !.completion_queue =
                  Append(@, [agent_id |-> agent_id, task_id |-> task_id])]
    IN  CollectAndConsolidateSpec(s2, agent_id, task_id)

----------------------------------------------------------------------------
(* agents/librarian.py: routing and NEW_TASK; adk/skills/task_tools.py *)

LowerChar(c) ==
    CASE c = "P" -> "p"
      [] c = "W" -> "w"
      [] c = "X" -> "x"
      [] OTHER -> c

Lower(t) == [i \in 1..Len(t) |-> LowerChar(t[i])]

\* A faulty variant: the keyword is compared as written, case and all.
MatchesCaseSensitive(agent_info, payload_lower) ==
    \E i \in 1..Len(agent_info.capabilities) :
        IsSubstring(Strip(agent_info.capabilities[i]), payload_lower)

\* capability.strip().lower() in payload_lower, for some capability of the agent
Matches(agent_info, payload_lower) ==
    \E i \in 1..Len(agent_info.capabilities) :
        IsSubstring(Lower(Strip(agent_info.capabilities[i])), payload_lower)

RECURSIVE FirstMatch(_, _)
FirstMatch(agents, payload_lower) ==
    IF agents = << >> THEN "librarian"
    ELSE IF Head(agents).agent_id # "librarian" /\ Matches(Head(agents), payload_lower)
    THEN Head(agents).agent_id
    ELSE FirstMatch(Tail(agents), payload_lower)

RouteTask(payload) == FirstMatch(roster, Lower(payload))

Digit(d) == << "0", "1", "2", "3", "4", "5", "6", "7", "8", "9" >>[d + 1]

\* str(n) of a non-negative integer
RECURSIVE Decimal(_)
Decimal(n) == IF n < 10 THEN Digit(n) ELSE Decimal(n \div 10) \o Digit(n % 10)

\* the :03d of the format: zero-padded to three digits, longer numbers kept whole
RECURSIVE ZeroPad(_)
ZeroPad(digits) == IF Len(digits) >= 3 THEN digits ELSE ZeroPad("0" \o digits)

\* f"TASK-{_task_counter:03d}"
FormatTaskId(n) == "TASK-" \o ZeroPad(Decimal(n))

\* A faulty variant: the counter is read but the increment is not stored.
GenerateTaskIdStuck(s) ==
    Return([s EXCEPT !.generated = Append(@, FormatTaskId(s.task_counter + 1))],
           FormatTaskId(s.task_counter + 1))

\* global _task_counter; _task_counter += 1; return the formatted id
GenerateTaskId(s) ==
    Return([s EXCEPT !.task_counter = @ + 1,
                     !.generated = Append(@, FormatTaskId(s.task_counter + 1))],
           FormatTaskId(s.task_counter + 1))

RECURSIVE Send(_, _, _)

\* A faulty variant: a task that routes back to the coordinator and was not
\* known before is published to it again as a NEW_TASK.
HandleNewTaskResubmits(s, message) ==
    LET given == Get(message, "task_id")
        payload == IF "payload" \in DOMAIN message THEN message.payload ELSE << >>
        g == IF Falsy(given) THEN GenerateTaskId(s) ELSE Return(s, given)
        task_id == g.ret
        s1 == Log([g EXCEPT !.active_tasks =
                      Store(@, task_id, [task_id |-> task_id, payload |-> payload,
                                         status |-> "routing",
                                         assigned_agent |-> NoneVal])],
                  << "status", task_id, "routing" >>)
        target_agent == RouteTask(payload)
        s2 == SetStatus([s1 EXCEPT !.active_tasks[task_id].assigned_agent = target_agent],
                        task_id, "delegated")
    IN  IF target_agent = "librarian" /\ task_id \notin DOMAIN s.active_tasks
        THEN Send(Log(s2, << "publish", "librarian", "NEW_TASK", task_id, payload >>),
                  "librarian",
                  [type |-> "NEW_TASK", task_id |-> task_id, payload |-> payload])
        ELSE Send(Log(s2, << "publish", target_agent, "DELEGATED_TASK", task_id, payload >>),
                  target_agent,
                  [type |-> "DELEGATED_TASK", task_id |-> task_id, payload |-> payload])

HandleNewTask(s, message) ==
    LET given == Get(message, "task_id")
        payload == IF "payload" \in DOMAIN message THEN message.payload ELSE << >>
        g == IF Falsy(given) THEN GenerateTaskId(s) ELSE Return(s, given)
        task_id == g.ret
        s1 == Log([g EXCEPT !.active_tasks =
                      Store(@, task_id, [task_id |-> task_id, payload |-> payload,
                                         status |-> "routing",
                                         assigned_agent |-> NoneVal])],
                  << "status", task_id, "routing" >>)
        target_agent == RouteTask(payload)
        s2 == SetStatus([s1 EXCEPT !.active_tasks[task_id].assigned_agent = target_agent],
                        task_id, "delegated")
    IN  Send(Log(s2, << "publish", target_agent, "DELEGATED_TASK", task_id, payload >>),
             target_agent,
             [type |-> "DELEGATED_TASK", task_id |-> task_id, payload |-> payload])

----------------------------------------------------------------------------
(* agents/probe.py, adk/skills/a2a_tools.py *)

\* A faulty variant: the completion is handed to the bus and dispatched later.
EmitTaskCompleteDeferred(s, agent_id, task_id) ==
    Log(s, << "publish", "librarian", "TASK_COMPLETE", task_id, agent_id >>)

EmitTaskComplete(s, agent_id, task_id) ==
    Send(Log(s, << "publish", "librarian", "TASK_COMPLETE", task_id, agent_id >>),
         "librarian",
         [type |-> "TASK_COMPLETE", agent_id |-> agent_id, task_id |-> task_id])

WriteSpec(s, task_id) ==
    WriteFile(s, SpecPath("probe", task_id), ProbeContent, "write_spec")

HandleDelegatedTask(s, message) ==
    LET task_id == Get(message, "task_id") IN
    IF Falsy(task_id) THEN s
    ELSE LET w == WriteSpec(s, task_id) IN
         IF w.err # "none" THEN w ELSE EmitTaskComplete(w, "probe", task_id)

----------------------------------------------------------------------------
(* adk/a2a.py *)

\* handler(message): the bound method the name stands for; hA and hB are
\* handlers of a test or another component, which only record the call.
Invoke(s, agent_id, handler, message) ==
    LET s1 == Log(s, << "invoke", agent_id, message.type, handler >>)
        r == CASE handler = "_handle_new_task" -> HandleNewTask(s1, message)
               [] handler = "_handle_task_complete" -> HandleTaskComplete(s1, message)
               [] handler = "_handle_delegated_task" -> HandleDelegatedTask(s1, message)
               [] OTHER -> s1
    IN  IF r.err = "none"
        THEN Log(r, << "return", agent_id, message.type, handler >>)
        ELSE r

\* for handler in handlers: handler(message); an exception ends the loop
RECURSIVE Dispatch(_, _, _, _)
Dispatch(s, agent_id, hs, message) ==
    IF hs = << >> \/ s.err # "none" THEN s
    ELSE Dispatch(Invoke(s, agent_id, Head(hs), message), agent_id, Tail(hs), message)

\* A faulty variant: every handler stored under the key is invoked.
RECURSIVE DispatchGlobalUnfiltered(_, _, _, _)
DispatchGlobalUnfiltered(s, to_agent, gs, message) ==
    IF gs = << >> \/ s.err # "none" THEN s
    ELSE DispatchGlobalUnfiltered(Invoke(s, to_agent, Head(gs)[2], message),
                                  to_agent, Tail(gs), message)

\* for agent_id, handler in global_handlers: if agent_id == to_agent: handler(message)
RECURSIVE DispatchGlobal(_, _, _, _)
DispatchGlobal(s, to_agent, gs, message) ==
    IF gs = << >> \/ s.err # "none" THEN s
    ELSE LET s1 == IF Head(gs)[1] = to_agent
                   THEN Invoke(s, to_agent, Head(gs)[2], message)
                   ELSE s
         IN  DispatchGlobal(s1, to_agent, Tail(gs), message)

IsDict(message) == "notdict" \notin DOMAIN message

HandlersGet(to_agent, event_type) ==
    IF event_type \in DOMAIN handlers[to_agent] THEN handlers[to_agent][event_type]
    ELSE << >>

\* key = f"{self.agent_id}:{event_type}"
Key(agent_id, event_type) == agent_id \o ":" \o event_type

GlobalGet(key) == IF key \in DOMAIN global_handlers THEN global_handlers[key] ELSE << >>

\* A faulty variant: a message without 'type' is dropped, not rejected.
SendDropsUntyped(s, to_agent, message) ==
    IF s.err # "none" THEN s
    ELSE IF ~IsDict(message) THEN s
    ELSE IF "type" \notin DOMAIN message THEN s
    ELSE
    LET event_type == message.type
        s1 == IF to_agent \in DOMAIN running /\ running[to_agent]
              THEN Dispatch(s, to_agent, HandlersGet(to_agent, event_type), message)
              ELSE s
    IN  DispatchGlobal(s1, to_agent, GlobalGet(Key(to_agent, event_type)), message)

Send(s, to_agent, message) ==
    IF s.err # "none" THEN s
    ELSE IF ~IsDict(message) THEN Raise(s, "ValueError")
    ELSE IF "type" \notin DOMAIN message THEN Raise(s, "ValueError")
    ELSE
    LET event_type == message.type
        s1 == IF to_agent \in DOMAIN running /\ running[to_agent]
              THEN Dispatch(s, to_agent, HandlersGet(to_agent, event_type), message)
              ELSE s
    IN  DispatchGlobal(s1, to_agent, GlobalGet(Key(to_agent, event_type)), message)

----------------------------------------------------------------------------
(* Inputs *)

Payloads == { << "P" >>, << "x" >> }

NewTaskMsgs ==
    { [type |-> "NEW_TASK", payload |-> p] : p \in Payloads }
    \cup { [type |-> "NEW_TASK", task_id |-> t, payload |-> p] :
               t \in TaskIds, p \in Payloads }

DelegatedMsgs ==
    { [type |-> "DELEGATED_TASK", task_id |-> t, payload |-> << "P" >>] : t \in TaskIds }
    \cup { [type |-> "DELEGATED_TASK", payload |-> << "P" >>] }

CompleteMsgs ==
    { [type |-> "TASK_COMPLETE", agent_id |-> a, task_id |-> t] :
          a \in WorkerIds, t \in TaskIds }

MalformedCompleteMsgs ==
    { [type |-> "TASK_COMPLETE", task_id |-> IdTable[1]],
      [type |-> "TASK_COMPLETE", agent_id |-> "probe", task_id |-> ""],
      [type |-> "TASK_COMPLETE", agent_id |-> "probe"],
      [type |-> "TASK_COMPLETE", agent_id |-> "", task_id |-> IdTable[1]] }

NoTypeMsgs == { [agent_id |-> "probe", task_id |-> IdTable[1]], [notdict |-> TRUE] }

PingMsg == [type |-> "PING"]

\* The calls made from outside, (to_agent, message): a task that routes to
\* the coordinator itself and so waits for its completion, the completions of
\* the two workers, malformed messages, and messages nobody handles.
Calls ==
    ({"librarian"} \X
        ({[type |-> "NEW_TASK", task_id |-> IdTable[1], payload |-> << "x" >>]}
            \cup CompleteMsgs \cup MalformedCompleteMsgs \cup NoTypeMsgs \cup {PingMsg}))
    \cup ({"probe"} \X (NoTypeMsgs \cup {PingMsg}))
    \cup ({"writer"} \X {PingMsg})

ArtifactContents == { BlankContent, BodyContent }

DefaultRoster ==
    << [agent_id |-> "librarian", capabilities |-> << << "x" >> >>],
       [agent_id |-> "probe", capabilities |-> << << "p" >> >>] >>

----------------------------------------------------------------------------
(* Top-level calls *)

EmptyMap == [x \in {} |-> x]
NoMsg == [type |-> "-"]

Begin(fault) ==
    [active_tasks |-> active_tasks, completion_queue |-> completion_queue,
     files |-> files, task_counter |-> task_counter, retired |-> retired,
     generated |-> generated,
     err |-> "none", ret |-> NoneVal, trace |-> << >>, fault |-> fault]

Commit(r) ==
    /\ active_tasks' = r.active_tasks
    /\ completion_queue' = r.completion_queue
    /\ files' = r.files
    /\ task_counter' = r.task_counter
    /\ retired' = r.retired
    /\ generated' = r.generated
    /\ trace' = r.trace

EntryCount(text) == Cardinality({ i \in 1..Len(text) : text[i] = "---" })

Artifacts(f) == DOMAIN f \ {ActiveSpecPath}

WithinBounds(r) ==
    /\ r.task_counter <= MaxCounter
    /\ Len(r.completion_queue) <= MaxQueue
    /\ ActiveSpecPath \in DOMAIN r.files => EntryCount(r.files[ActiveSpecPath]) <= MaxEntries

TouchesStorage(tr) ==
    \E i \in 1..Len(tr) : tr[i][1] \in {"fs_read", "fs_write", "fs_delete"}

\* The faults that change what the call does.  A fault no Storage operation
\* of the call meets leaves the call as it is without the fault, and the
\* call is then taken once, as the call without it.
FaultsMet(to_agent, message) ==
    LET r0 == Send(Begin(NoFault), to_agent, message) IN
    {NoFault} \cup
        IF TouchesStorage(r0.trace)
        THEN { f \in Faults \ {NoFault} :
                 Send(Begin(f), to_agent, message) # [r0 EXCEPT !.fault = f] }
        ELSE {}

Idle == last.op = "idle"
IdleCall == [op |-> "idle", agent |-> "-", msg |-> NoMsg, fault |-> NoFault, err |-> "none"]

\* a2a.send(to_agent, message), called from outside any handler
DoSend(to_agent, message, fault) ==
    LET r == Send(Begin(fault), to_agent, message) IN
    /\ Idle
    /\ WithinBounds(r)
    /\ Commit(r)
    /\ last' = [op |-> "send", agent |-> to_agent, msg |-> message,
                fault |-> fault, err |-> r.err]
    /\ UNCHANGED << running, handlers, global_handlers, roster, manager_running >>

Publish ==
    /\ Idle
    /\ \E c \in Calls : \E f \in FaultsMet(c[1], c[2]) : DoSend(c[1], c[2], f)

\* The caller has the call's result (or its exception) and goes on.
Returned ==
    /\ ~Idle
    /\ last' = IdleCall
    /\ trace' = << >>
    /\ UNCHANGED << running, handlers, global_handlers, roster, active_tasks,
                    completion_queue, files, task_counter, manager_running, retired, generated >>

Quiet(op, agent) ==
    /\ Idle
    /\ trace' = << >>
    /\ last' = [op |-> op, agent |-> agent,
                msg |-> IF agent \in DOMAIN running
                        THEN [type |-> "-", listening |-> running[agent]]
                        ELSE NoMsg,
                fault |-> NoFault, err |-> "none"]

\* A faulty variant: start flips the listening flag.
StartToggles(agent) ==
    /\ running' = [running EXCEPT ![agent] = ~@]
    /\ Quiet("start", agent)
    /\ UNCHANGED << handlers, global_handlers, roster, active_tasks, completion_queue,
                    files, task_counter, manager_running, retired, generated >>

\* LibrarianAgent.start / ProbeAgent.start: self.a2a.start()
Start(agent) ==
    /\ running' = [running EXCEPT ![agent] = TRUE]
    /\ Quiet("start", agent)
    /\ UNCHANGED << handlers, global_handlers, roster, active_tasks, completion_queue,
                    files, task_counter, manager_running, retired, generated >>

\* A faulty variant: stopping an agent also drops the tasks in flight.
StopDropsTasks(agent) ==
    /\ running' = [running EXCEPT ![agent] = FALSE]
    /\ active_tasks' = EmptyMap
    /\ Quiet("stop", agent)
    /\ UNCHANGED << handlers, global_handlers, roster, completion_queue,
                    files, task_counter, manager_running, retired, generated >>

Stop(agent) ==
    /\ running' = [running EXCEPT ![agent] = FALSE]
    /\ Quiet("stop", agent)
    /\ UNCHANGED << handlers, global_handlers, roster, active_tasks, completion_queue,
                    files, task_counter, manager_running, retired, generated >>

AgentStart == \E agent \in {"librarian"} : Start(agent)
AgentStop == \E agent \in {"librarian"} : Stop(agent)

\* A worker leaves its temp artifact {agent_id}_{task_id}_spec.md in logs/
WriteArtifact ==
    \E agent_id \in WorkerIds, task_id \in TaskIds, content \in ArtifactContents :
        /\ Idle
        /\ Cardinality(Artifacts(files) \ {SpecPath(agent_id, task_id)}) < MaxArtifacts
        /\ files' = Store(files, SpecPath(agent_id, task_id), content)
        /\ Quiet("write_artifact", agent_id)
        /\ UNCHANGED << running, handlers, global_handlers, roster, active_tasks,
                        completion_queue, task_counter, manager_running, retired, generated >>

----------------------------------------------------------------------------
(* The system after Manager() and ProbeAgent() are constructed *)

InitHandlers ==
    [a \in Instances |->
        CASE a = "librarian" ->
                 [e \in {"NEW_TASK", "TASK_COMPLETE"} |->
                     IF e = "NEW_TASK" THEN << "_handle_new_task" >>
                     ELSE << "_handle_task_complete" >>]
          [] a = "probe" -> [e \in {"DELEGATED_TASK"} |-> << "_handle_delegated_task" >>]
          [] OTHER -> EmptyMap]

InitGlobalHandlers ==
    [k \in { Key("librarian", "NEW_TASK"), Key("librarian", "TASK_COMPLETE"),
             Key("probe", "DELEGATED_TASK") } |->
        CASE k = Key("librarian", "NEW_TASK") ->
                 << << "librarian", "_handle_new_task" >> >>
          [] k = Key("librarian", "TASK_COMPLETE") ->
                 << << "librarian", "_handle_task_complete" >> >>
          [] OTHER -> << << "probe", "_handle_delegated_task" >> >>]

Init ==
    /\ running = [a \in Instances |-> FALSE]
    /\ handlers = InitHandlers
    /\ global_handlers = InitGlobalHandlers
    /\ roster = DefaultRoster
    /\ active_tasks = EmptyMap
    /\ completion_queue = << >>
    /\ files = EmptyMap
    /\ task_counter = 0
    /\ manager_running = FALSE
    /\ retired = {}
    /\ generated = << >>
    /\ last = IdleCall
    /\ trace = << >>

Next ==
    \/ Publish
    \/ AgentStart
    \/ AgentStop
    \/ WriteArtifact
    \/ Returned

Spec == Init /\ [][Next]_vars

----------------------------------------------------------------------------
(* Reading the history of a call *)

Did(tr, e) == \E i \in 1..Len(tr) : tr[i] = e
DidKind(tr, k) == \E i \in 1..Len(tr) : tr[i][1] = k
CountOf(tr, e) == Cardinality({ i \in 1..Len(tr) : tr[i] = e })

CompleteMsg(a, t) == [type |-> "TASK_COMPLETE", agent_id |-> a, task_id |-> t]

\* the call just made was send(to_agent = "librarian", TASK_COMPLETE{a, t})
Completion(call, a, t) ==
    call.op = "send" /\ call.agent = "librarian" /\ call.msg = CompleteMsg(a, t)

WellFormed(m) == IsDict(m) /\ "type" \in DOMAIN m

Aggregate(f) == IF ActiveSpecPath \in DOMAIN f THEN f[ActiveSpecPath] ELSE << "<absent>" >>

\* how many provenance-tagged entries of (a, t) with this content the text holds
Entries(text, a, t, content) ==
    LET e == Separator(a, t) \o content \o << "\n" >> IN
    Cardinality({ i \in 1..Len(text) :
                    i + Len(e) - 1 <= Len(text) /\ SubSeq(text, i, i + Len(e) - 1) = e })

HasArtifact(f, a, t) == SpecPath(a, t) \in DOMAIN f /\ Strip(f[SpecPath(a, t)]) # << >>

Status(tasks, t) == IF t \in DOMAIN tasks THEN tasks[t].status ELSE "absent"

----------------------------------------------------------------------------
(* Claims *)

\* C1: once an append failure has left a known task COMPLETED in the active
\* set with its temp artifact retained, re-emitting the same TASK_COMPLETE to
\* the started coordinator with Storage healthy re-enters the pipeline,
\* appends the artifact's content exactly once and removes the task.
C1_RetryAfterAppendFailure ==
    [][ \A a \in WorkerIds, t \in TaskIds :
          ( /\ Completion(last', a, t)
            /\ last'.fault = NoFault
            /\ running["librarian"]
            /\ Status(active_tasks, t) = "completed"
            /\ HasArtifact(files, a, t)
            /\ Did(completion_queue, [agent_id |-> a, task_id |-> t]) )
          => ( /\ Did(trace', << "pipeline", a, t >>)
               /\ Entries(Aggregate(files'), a, t, files[SpecPath(a, t)])
                    = Entries(Aggregate(files), a, t, files[SpecPath(a, t)]) + 1
               /\ t \notin DOMAIN active_tasks' ) ]_vars

\* C2: whenever the append step fails, the temp artifact is kept, the
\* aggregate is unchanged, a task that was in the active set stays there
\* (COMPLETED, as it entered the pipeline), and the publisher sees no error.
C2_AppendFailureAborts ==
    [][ \A a \in WorkerIds, t \in TaskIds :
          ( Completion(last', a, t) /\ Did(trace', << "append_failed", a, t >>) )
          => ( /\ SpecPath(a, t) \in DOMAIN files'
               /\ files'[SpecPath(a, t)] = files[SpecPath(a, t)]
               /\ Aggregate(files') = Aggregate(files)
               /\ t \in DOMAIN active_tasks =>
                      Status(active_tasks', t) = "completed"
               /\ last'.err = "none" ) ]_vars

\* C3: a send of a well-formed message to a recipient that is not listening
\* invokes no handler, changes nothing and raises nothing.
C3_DeliveryGatedOnListening ==
    [][ ( /\ last'.op = "send"
          /\ WellFormed(last'.msg)
          /\ last'.agent \in Instances => ~running[last'.agent] )
        => ( /\ ~DidKind(trace', "invoke")
             /\ UNCHANGED << active_tasks, completion_queue, files >>
             /\ last'.err = "none" ) ]_vars

\* the handlers one send invoked for the recipient and the type it was sent
DirectInvocations(tr, to_agent, event_type) ==
    LET Direct(e) == e[1] = "invoke" /\ e[2] = to_agent /\ e[3] = event_type
        sel == SelectSeq(tr, Direct)
    IN  [i \in 1..Len(sel) |-> sel[i][4]]

\* C4: one send to a started recipient invokes exactly the handlers
\* registered for (recipient, type), in registration order, once each.
C4_OneInvocationPerRegistration ==
    ( /\ last.op = "send"
      /\ WellFormed(last.msg)
      /\ last.agent \in Instances
      /\ running[last.agent]
      /\ last.err = "none" )
    => DirectInvocations(trace, last.agent, last.msg.type)
         = HandlersGet(last.agent, last.msg.type)

Rank(status) ==
    CASE status = "routing" -> 1
      [] status = "delegated" -> 2
      [] status = "completed" -> 3

\* the statuses the record of task t went through during a call ("absent"
\* where the record was deleted), after the status it had before the call
StatusChain(before, tr, t) ==
    LET About(e) == e[1] \in {"status", "task_del"} /\ e[2] = t
        sel == SelectSeq(tr, About)
    IN  << before >> \o
        [i \in 1..Len(sel) |-> IF sel[i][1] = "status" THEN sel[i][3] ELSE "absent"]

Advances(x, y) ==
    \/ y = "absent"
    \/ x = "absent" /\ y = "routing"
    \/ x # "absent" /\ Rank(y) = Rank(x) + 1

\* C5: whatever NEW_TASK and TASK_COMPLETE messages arrive, a task record in
\* the active set only goes ROUTING -> DELEGATED -> COMPLETED: its status
\* never moves back and never skips DELEGATED.
C5_StatusMonotonic ==
    [][ last'.op = "send" =>
          \A t \in TaskIds :
              LET chain == StatusChain(Status(active_tasks, t), trace', t) IN
              \A i \in 1..(Len(chain) - 1) : Advances(chain[i], chain[i + 1]) ]_vars

\* C6: a send of a message without a 'type' field raises the validation
\* error to the publisher before any handler runs, whoever the target is and
\* whether or not it listens, and changes nothing.
C6_MissingTypeRejected ==
    [][ ( last'.op = "send" /\ "type" \notin DOMAIN last'.msg )
        => ( /\ last'.err = "ValueError"
             /\ trace' = << >>
             /\ UNCHANGED << active_tasks, completion_queue, files, task_counter >> ) ]_vars

C6_Witness ==
    /\ last.op = "send"
    /\ IsDict(last.msg)
    /\ "type" \notin DOMAIN last.msg
    /\ last.agent = "librarian"
    /\ running["librarian"]
    /\ active_tasks # EmptyMap
    /\ last.err = "ValueError"

\* C7: a TASK_COMPLETE for a task that is in the active set as COMPLETED is
\* ignored: nothing is enqueued, the pipeline is not entered (no Storage
\* read, write or delete) and the record is unchanged.
C7_DuplicateCompletionIgnored ==
    [][ \A a \in WorkerIds, t \in TaskIds :
          ( Completion(last', a, t) /\ Status(active_tasks, t) = "completed" )
          => ( /\ UNCHANGED << active_tasks, completion_queue, files >>
               /\ ~DidKind(trace', "pipeline")
               /\ ~TouchesStorage(trace')
               /\ last'.err = "none" ) ]_vars

C7_Witness ==
    \E a \in WorkerIds, t \in TaskIds :
        /\ Completion(last, a, t)
        /\ Did(trace, << "dup_ignored", t >>)
        /\ Status(active_tasks, t) = "completed"
        /\ HasArtifact(files, a, t)

\* C8 as claimed: a TASK_COMPLETE for a task already consolidated and retired
\* re-enters consolidation and leaves the aggregate, the active set and the
\* completion queue exactly as they were.
C8_RetiredCompletionChangesNothing ==
    [][ \A a \in WorkerIds, t \in TaskIds :
          ( /\ Completion(last', a, t)
            /\ << a, t >> \in retired
            /\ t \notin DOMAIN active_tasks
            /\ SpecPath(a, t) \notin DOMAIN files )
          => ( /\ Did(trace', << "pipeline", a, t >>)
               /\ UNCHANGED << files, active_tasks, completion_queue >> ) ]_vars

\* C8, amended: such a TASK_COMPLETE re-enters consolidation, leaves Storage
\* (the aggregate included) and the active set exactly as they were, and
\* leaves the completion queue as it was except that every entry for that
\* task id is removed.
C8_RetiredCompletionNoDuplicate ==
    [][ \A a \in WorkerIds, t \in TaskIds :
          ( /\ Completion(last', a, t)
            /\ << a, t >> \in retired
            /\ t \notin DOMAIN active_tasks
            /\ SpecPath(a, t) \notin DOMAIN files )
          => ( /\ Did(trace', << "pipeline", a, t >>)
               /\ UNCHANGED << files, active_tasks >>
               /\ LET Other(item) == item.task_id # t IN
                  completion_queue' = SelectSeq(completion_queue, Other)
               /\ last'.err = "none" ) ]_vars

C8_Witness ==
    \E a \in WorkerIds, t \in TaskIds :
        /\ Completion(last, a, t)
        /\ << a, t >> \in retired
        /\ Did(trace, << "absent", a, t >>)
        /\ ~Did(trace, << "consolidated", a, t >>)
        /\ Entries(Aggregate(files), a, t, BodyContent) = 1
        /\ t \notin DOMAIN active_tasks

\* C9: a second pipeline run against a non-empty temp artifact that survived
\* an earlier run appends its content again: the aggregate gains one more
\* provenance-tagged entry for the task and then holds at least two.
C9_NotDeduplicated ==
    [][ \A a \in WorkerIds, t \in TaskIds :
          ( /\ Completion(last', a, t)
            /\ last'.fault = NoFault
            /\ Did(trace', << "pipeline", a, t >>)
            /\ HasArtifact(files, a, t)
            /\ Entries(Aggregate(files), a, t, files[SpecPath(a, t)]) >= 1 )
          => Entries(Aggregate(files'), a, t, files[SpecPath(a, t)])
               = Entries(Aggregate(files), a, t, files[SpecPath(a, t)]) + 1 ]_vars

C9_Witness ==
    \E a \in WorkerIds, t \in TaskIds :
        /\ Completion(last, a, t)
        /\ last.fault = NoFault
        /\ CountOf(trace, << "appended", a, t >>) = 1
        /\ Entries(Aggregate(files), a, t, BodyContent) = 2

\* C10: when the temp artifact is absent, or reading it fails, the pipeline
\* writes and deletes nothing in Storage (the aggregate is unchanged and is
\* not created) and the task id leaves the active set and the queue.
C10_NothingToConsolidate ==
    [][ \A a \in WorkerIds, t \in TaskIds :
          ( /\ Completion(last', a, t)
            /\ Did(trace', << "pipeline", a, t >>)
            /\ \/ SpecPath(a, t) \notin DOMAIN files
               \/ last'.fault = << "read_spec", "raise" >> )
          => ( /\ files' = files
               /\ ~DidKind(trace', "fs_write")
               /\ ~DidKind(trace', "fs_delete")
               /\ t \notin DOMAIN active_tasks'
               /\ \A i \in 1..Len(completion_queue') : completion_queue'[i].task_id # t
               /\ last'.err = "none" ) ]_vars

C10_Witness ==
    \E a \in WorkerIds, t \in TaskIds :
        /\ Completion(last, a, t)
        /\ Did(trace, << "read_failed", a, t >>)
        /\ Did(trace, << "task_del", t >>)
        /\ HasArtifact(files, a, t)
        /\ ActiveSpecPath \notin DOMAIN files

----------------------------------------------------------------------------
(* _route_task as a function of the roster and the payload *)

RouteAgents == {"librarian", "probe", "writer"}

\* Capability lists as _load_roster leaves them: items stripped and non-empty.
CapLists == { << >>, << << "p" >> >>, << << "X" >> >>, << << "w" >>, << "p", "x" >> >> }

AgentInfo(a, caps) == [agent_id |-> a, capabilities |-> caps]

\* The roster dict in insertion order: distinct agent ids, at most two agents.
Rosters ==
    { << >> }
    \cup { << AgentInfo(a, c) >> : a \in RouteAgents, c \in CapLists }
    \cup UNION { { << AgentInfo(a, c), AgentInfo(b, d) >> :
                       b \in RouteAgents \ {a}, c \in CapLists, d \in CapLists } :
                   a \in RouteAgents }

RoutePayloads == { << >>, << "P" >>, << "x" >>, << "w" >>, << "a", "P", "X" >> }

InitRoute ==
    /\ roster \in Rosters
    /\ running = [a \in Instances |-> FALSE]
    /\ handlers = InitHandlers
    /\ global_handlers = InitGlobalHandlers
    /\ active_tasks = EmptyMap
    /\ completion_queue = << >>
    /\ files = EmptyMap
    /\ task_counter = 0
    /\ manager_running = FALSE
    /\ retired = {}
    /\ generated = << >>
    /\ last = IdleCall
    /\ trace = << >>

\* target_agent = self._route_task(payload)
Route ==
    \E payload \in RoutePayloads :
        /\ last' = [op |-> "route", agent |-> RouteTask(payload),
                    msg |-> [type |-> "-", payload |-> payload],
                    fault |-> NoFault, err |-> "none"]
        /\ UNCHANGED << running, handlers, global_handlers, roster, active_tasks,
                        completion_queue, files, task_counter, manager_running,
                        retired, generated, trace >>

NextRoute == Route

SpecRoute == InitRoute /\ [][NextRoute]_vars

\* the keyword occurs in the payload, letter case apart
KeywordIn(cap, payload) ==
    \E i \in 0..Len(payload) :
        /\ i + Len(cap) <= Len(payload)
        /\ \A k \in 1..Len(cap) : LowerChar(cap[k]) = LowerChar(payload[i + k])

\* the i-th agent of the roster is not the coordinator and has a keyword in the payload
Candidate(i, payload) ==
    /\ roster[i].agent_id # "librarian"
    /\ \E c \in 1..Len(roster[i].capabilities) :
           KeywordIn(roster[i].capabilities[c], payload)

\* C11: route returns the first agent of the roster, the coordinator
\* excluded, that has a capability keyword occurring case-insensitively in
\* the payload, and the coordinator's own id exactly when there is none (so
\* always with an empty roster).
C11_RouteFirstMatch ==
    last.op = "route" =>
        LET payload == last.msg.payload
            cands == { i \in 1..Len(roster) : Candidate(i, payload) }
        IN  /\ cands = {} => last.agent = "librarian"
            /\ cands # {} =>
                   \E i \in cands : (\A j \in cands : i <= j)
                                    /\ last.agent = roster[i].agent_id
            /\ roster = << >> => last.agent = "librarian"

C11_Witness ==
    /\ last.op = "route"
    /\ Len(roster) = 2
    /\ Candidate(1, last.msg.payload)
    /\ Candidate(2, last.msg.payload)
    /\ \A c \in 1..Len(roster[1].capabilities) :
           ~IsSubstring(roster[1].capabilities[c], last.msg.payload)
    /\ last.agent = roster[1].agent_id

----------------------------------------------------------------------------
(* The whole system: Manager, Librarian and Probe, Storage healthy *)

SystemTaskIds == { IdTable[1], IdTable[2] }
SystemPayloads == { << "P" >>, << "x" >> }

\* What the outside publishes to the coordinator: tasks with and without an
\* id of their own, and completions of a worker that left no artifact.
SystemCalls ==
    {"librarian"} \X
        ( { [type |-> "NEW_TASK", payload |-> p] : p \in SystemPayloads }
          \cup { [type |-> "NEW_TASK", task_id |-> IdTable[1], payload |-> p] :
                     p \in SystemPayloads }
          \cup { [type |-> "TASK_COMPLETE", agent_id |-> "writer", task_id |-> t] :
                     t \in SystemTaskIds } )

WithinSystemBounds(r) ==
    /\ r.task_counter <= MaxCounter
    /\ Len(r.completion_queue) <= MaxQueue
    /\ ActiveSpecPath \in DOMAIN r.files =>
           EntryCount(r.files[ActiveSpecPath]) <= MaxSystemEntries

SystemPublish ==
    /\ Idle
    /\ \E c \in SystemCalls :
           LET r == Send(Begin(NoFault), c[1], c[2]) IN
           /\ WithinSystemBounds(r)
           /\ Commit(r)
           /\ last' = [op |-> "send", agent |-> c[1], msg |-> c[2],
                       fault |-> NoFault, err |-> r.err]
           /\ UNCHANGED << running, handlers, global_handlers, roster, manager_running >>

\* A faulty variant: the task id is generated and NEW_TASK published whether
\* or not the system is running.
SubmitTaskUnchecked ==
    /\ Idle
    /\ \E task_description \in SystemPayloads :
           LET g == GenerateTaskId(Begin(NoFault))
               message == [type |-> "NEW_TASK", task_id |-> g.ret,
                           payload |-> task_description]
               r == Send(g, "librarian", message)
           IN  /\ WithinSystemBounds(r)
               /\ Commit(r)
               /\ last' = [op |-> "submit", agent |-> "librarian", msg |-> message,
                           fault |-> NoFault, err |-> r.err]
               /\ UNCHANGED << running, handlers, global_handlers, roster,
                               manager_running >>

\* Manager.submit_task(task_description)
SubmitTask ==
    /\ Idle
    /\ \E task_description \in SystemPayloads :
           IF ~manager_running
           THEN /\ last' = [op |-> "submit", agent |-> "librarian", msg |-> NoMsg,
                            fault |-> NoFault, err |-> "RuntimeError"]
                /\ UNCHANGED << running, handlers, global_handlers, roster, active_tasks,
                                completion_queue, files, task_counter, manager_running,
                                retired, generated, trace >>
           ELSE LET g == GenerateTaskId(Begin(NoFault))
                    message == [type |-> "NEW_TASK", task_id |-> g.ret,
                                payload |-> task_description]
                    r == Send(g, "librarian", message)
                IN  /\ WithinSystemBounds(r)
                    /\ Commit(r)
                    /\ last' = [op |-> "submit", agent |-> "librarian", msg |-> message,
                                fault |-> NoFault, err |-> r.err]
                    /\ UNCHANGED << running, handlers, global_handlers, roster,
                                    manager_running >>

\* Manager.start(): self.a2a.start(); self.librarian.start(); self.running = True
ManagerStart ==
    /\ running' = [running EXCEPT !["manager"] = TRUE, !["librarian"] = TRUE]
    /\ manager_running' = TRUE
    /\ Quiet("manager_start", "manager")
    /\ UNCHANGED << handlers, global_handlers, roster, active_tasks, completion_queue,
                    files, task_counter, retired, generated >>

\* Manager.stop(): self.librarian.stop(); self.a2a.stop(); self.running = False
ManagerStop ==
    /\ running' = [running EXCEPT !["manager"] = FALSE, !["librarian"] = FALSE]
    /\ manager_running' = FALSE
    /\ Quiet("manager_stop", "manager")
    /\ UNCHANGED << handlers, global_handlers, roster, active_tasks, completion_queue,
                    files, task_counter, retired, generated >>

ProbeStart == Start("probe")
ProbeStop == Stop("probe")

\* The worker "writer" leaves its report for a task, as _write_spec does
WriterWritesSpec ==
    \E task_id \in TaskIds :
        /\ Idle
        /\ SpecPath("writer", task_id) \notin DOMAIN files
        /\ files' = Store(files, SpecPath("writer", task_id), BodyContent)
        /\ Quiet("write_artifact", "writer")
        /\ UNCHANGED << running, handlers, global_handlers, roster, active_tasks,
                        completion_queue, task_counter, manager_running, retired,
                        generated >>

NextSystem ==
    \/ SystemPublish
    \/ SubmitTask
    \/ ManagerStart
    \/ ManagerStop
    \/ ProbeStart
    \/ ProbeStop
    \/ WriterWritesSpec
    \/ Returned

SpecSystem == Init /\ [][NextSystem]_vars

\* the call just made published one NEW_TASK to the coordinator
NewTaskCall(call) ==
    /\ call.op \in {"send", "submit"}
    /\ call.agent = "librarian"
    /\ call.msg.type = "NEW_TASK"

\* the records a call created, the DELEGATED_TASK messages it published
RecordsCreated(tr) ==
    LET Created(e) == e[1] = "status" /\ e[3] = "routing" IN SelectSeq(tr, Created)

Delegations(tr) ==
    LET Delegation(e) == e[1] = "publish" /\ e[3] = "DELEGATED_TASK" IN
    SelectSeq(tr, Delegation)

\* C12: one NEW_TASK published to the started coordinator creates exactly one
\* task record, generates exactly one id when the message carries none,
\* leaves the record DELEGATED with the router's result as assigned agent,
\* and publishes exactly one DELEGATED_TASK with the same task_id and payload
\* to that agent.
C12_OneRecordOneDelegation ==
    [][ ( NewTaskCall(last') /\ running["librarian"] )
        => LET m == last'.msg
               created == RecordsCreated(trace')
               published == Delegations(trace')
               by_manager == IF last'.op = "submit" THEN 1 ELSE 0
               by_handler == IF Falsy(Get(m, "task_id")) THEN 1 ELSE 0
           IN  /\ Len(created) = 1
               /\ task_counter' = task_counter + by_manager + by_handler
               /\ ~Falsy(Get(m, "task_id")) => created[1][2] = m.task_id
               /\ Len(published) = 1
               /\ published[1] = << "publish", RouteTask(m.payload), "DELEGATED_TASK",
                                    created[1][2], m.payload >>
               /\ created[1][2] \in DOMAIN active_tasks' =>
                      /\ active_tasks'[created[1][2]].status = "delegated"
                      /\ active_tasks'[created[1][2]].assigned_agent = RouteTask(m.payload)
      ]_vars

\* the aggregate as _append_to_active_spec reads it before it appends
Existing(f) == IF ActiveSpecPath \in DOMAIN f THEN f[ActiveSpecPath] ELSE Header

\* C13 as claimed: one TASK_COMPLETE for a DELEGATED task with a non-empty
\* temp artifact, published to the started coordinator with Storage healthy,
\* leaves the aggregate equal to its previous content (the canonical header
\* if there was none) followed by one separator naming the task and the
\* agent and by the artifact's content; the artifact is gone and the task id
\* is in neither the active set nor the queue.
C13_ConsolidatedExactly ==
    [][ \A a \in WorkerIds, t \in TaskIds :
          ( /\ Completion(last', a, t)
            /\ last'.fault = NoFault
            /\ running["librarian"]
            /\ Status(active_tasks, t) = "delegated"
            /\ HasArtifact(files, a, t) )
          => ( /\ Aggregate(files') =
                      Existing(files) \o Separator(a, t) \o files[SpecPath(a, t)]
               /\ SpecPath(a, t) \notin DOMAIN files'
               /\ t \notin DOMAIN active_tasks'
               /\ \A i \in 1..Len(completion_queue') : completion_queue'[i].task_id # t
             ) ]_vars

\* C13, amended: the same, the appended entry being the separator, the
\* artifact's content and a closing newline.
C13_ConsolidatedWithNewline ==
    [][ \A a \in WorkerIds, t \in TaskIds :
          ( /\ Completion(last', a, t)
            /\ last'.fault = NoFault
            /\ running["librarian"]
            /\ Status(active_tasks, t) = "delegated"
            /\ HasArtifact(files, a, t) )
          => ( /\ Aggregate(files') =
                      Existing(files) \o Separator(a, t) \o files[SpecPath(a, t)]
                          \o << "\n" >>
               /\ SpecPath(a, t) \notin DOMAIN files'
               /\ t \notin DOMAIN active_tasks'
               /\ \A i \in 1..Len(completion_queue') : completion_queue'[i].task_id # t
               /\ last'.err = "none" ) ]_vars

C13_Witness ==
    \E a \in WorkerIds, t \in TaskIds :
        /\ Completion(last, a, t)
        /\ last.fault = NoFault
        /\ running["librarian"]
        /\ Did(trace, << "status", t, "completed" >>)
        /\ Did(trace, << "consolidated", a, t >>)
        /\ EntryCount(Aggregate(files)) = 2
        /\ SpecPath(a, t) \notin DOMAIN files

\* C14: whatever Storage operation fails while a TASK_COMPLETE is handled,
\* the handler returns normally and the publish raises nothing.
C14_NoStorageFailureEscapes ==
    [][ ( /\ last'.op = "send"
          /\ last'.agent = "librarian"
          /\ WellFormed(last'.msg)
          /\ last'.msg.type = "TASK_COMPLETE" )
        => last'.err = "none" ]_vars

\* C20: after a successful append the task is always retired; the temp
\* artifact is left in place when the aggregate read back does not show its
\* trimmed content, a delete is attempted when it does and a failing delete
\* is swallowed; so no non-empty artifact is ever deleted while the aggregate
\* lacks its trimmed content.
C20_RetiredAfterAppend ==
    [][ \A a \in WorkerIds, t \in TaskIds :
          ( Completion(last', a, t) /\ Did(trace', << "appended", a, t >>) )
          => LET spec_path == SpecPath(a, t)
                 shown == IsSubstring(Strip(files[spec_path]), Aggregate(files'))
             IN  /\ t \notin DOMAIN active_tasks'
                 /\ \A i \in 1..Len(completion_queue') : completion_queue'[i].task_id # t
                 /\ last'.err = "none"
                 /\ ~shown => /\ spec_path \in DOMAIN files'
                              /\ files'[spec_path] = files[spec_path]
                 /\ shown => Did(trace', << "fs_delete" >> \o spec_path)
                 /\ spec_path \notin DOMAIN files' => shown ]_vars

IsPrefix(a, b) == Len(a) <= Len(b) /\ SubSeq(b, 1, Len(a)) = a

\* C16: the aggregate is append-only: once it exists, its content before a
\* pipeline run is a prefix of its content after the run; it is created only
\* by a successful append, and then begins with the canonical header.
C16_AggregateAppendOnly ==
    [][ last'.op = "send" =>
          /\ ActiveSpecPath \in DOMAIN files =>
                 /\ ActiveSpecPath \in DOMAIN files'
                 /\ IsPrefix(files[ActiveSpecPath], files'[ActiveSpecPath])
          /\ ( ActiveSpecPath \notin DOMAIN files /\ ActiveSpecPath \in DOMAIN files' ) =>
                 /\ DidKind(trace', "appended")
                 /\ IsPrefix(Header, files'[ActiveSpecPath]) ]_vars

\* a TASK_COMPLETE carrying task id t reached the coordinator's handler
CompletionDelivered(tr, t) ==
    \E i \in 1..Len(tr) :
        \/ tr[i][1] = "pipeline" /\ tr[i][3] = t
        \/ tr[i] = << "dup_ignored", t >>

\* C15: a DELEGATED task stays in the active set, DELEGATED, through every
\* step in which no TASK_COMPLETE carrying its id is delivered: completions
\* of other tasks, NEW_TASK messages, starts and stops do not remove it or
\* change its status.
C15_NoTimeout ==
    [][ \A t \in SystemTaskIds :
          ( Status(active_tasks, t) = "delegated" /\ ~CompletionDelivered(trace', t) )
          => Status(active_tasks', t) = "delegated" ]_vars

C15_Witness ==
    \E t \in SystemTaskIds, u \in SystemTaskIds :
        /\ t # u
        /\ last.op = "send"
        /\ last.msg.type = "TASK_COMPLETE"
        /\ last.msg.task_id = u
        /\ Did(trace, << "task_del", u >>)
        /\ ~CompletionDelivered(trace, t)
        /\ Status(active_tasks, t) = "delegated"

\* every message published during the call was dispatched on the spot: the
\* next thing that happened was a handler of its recipient starting on it
DispatchedAtOnce(tr) ==
    \A i \in 1..Len(tr) :
        tr[i][1] = "publish" =>
            /\ i < Len(tr)
            /\ tr[i + 1][1] = "invoke"
            /\ tr[i + 1][2] = tr[i][2]
            /\ tr[i + 1][3] = tr[i][3]

\* C17: dispatch is re-entrant and runs to completion: when a NEW_TASK routes
\* to the started probe, then by the time the producer's publish returns the
\* DELEGATED_TASK handler has run, the probe's TASK_COMPLETE has been handled,
\* consolidation and cleanup included, and no message waits in the bus.
C17_RunToCompletion ==
    [][ ( /\ NewTaskCall(last')
          /\ RouteTask(last'.msg.payload) = "probe"
          /\ running["probe"] )
        => LET created == RecordsCreated(trace') IN
           /\ last'.err = "none"
           /\ created # << >>
           /\ DispatchedAtOnce(trace')
           /\ Did(trace', << "invoke", "probe", "DELEGATED_TASK", "_handle_delegated_task" >>)
           /\ Did(trace', << "invoke", "librarian", "TASK_COMPLETE", "_handle_task_complete" >>)
           /\ \A k \in 1..Len(created) :
                  LET t == created[k][2] IN
                  /\ Did(trace', << "publish", "librarian", "TASK_COMPLETE", t, "probe" >>)
                  /\ Did(trace', << "consolidated", "probe", t >>)
                  /\ Did(trace', << "cleanup", t >>)
                  /\ Entries(Aggregate(files'), "probe", t, ProbeContent) >= 1
                  /\ SpecPath("probe", t) \notin DOMAIN files'
                  /\ t \notin DOMAIN active_tasks'
                  /\ \A i \in 1..Len(completion_queue') : completion_queue'[i].task_id # t
      ]_vars

C17_Witness ==
    /\ NewTaskCall(last)
    /\ last.op = "submit"
    /\ RouteTask(last.msg.payload) = "probe"
    /\ running["probe"]
    /\ running["librarian"]
    /\ Did(trace, << "consolidated", "probe", last.msg.task_id >>)
    /\ Entries(Aggregate(files), "probe", last.msg.task_id, ProbeContent) >= 1
    /\ last.msg.task_id \notin DOMAIN active_tasks

\* C19: start leaves the agent listening and stop leaves it not listening,
\* whatever the flag was before (start after start, stop on a never started
\* or already stopped agent), and neither changes the handler registrations
\* or any coordinator state.
C19_StartStopIdempotent ==
    [][ last'.op \in {"start", "stop"} =>
          /\ running' = [running EXCEPT ![last'.agent] = (last'.op = "start")]
          /\ ( running[last'.agent] /\ last'.op = "start" ) => running' = running
          /\ ( ~running[last'.agent] /\ last'.op = "stop" ) => running' = running
          /\ UNCHANGED << handlers, global_handlers, roster, active_tasks,
                          completion_queue, files, task_counter >> ]_vars

C19_Witness ==
    /\ last.op = "start"
    /\ last.agent = "librarian"
    /\ last.msg.listening
    /\ running["librarian"]
    /\ active_tasks # EmptyMap

----------------------------------------------------------------------------
(* The bus alone: A2A instances of two agents whose ids and event types *)
(* format to the same registry key                                       *)

BusAgents == {"a", "a:b"}
BusTypes == {"c", "b:c"}
BusHandlers == {"hA", "hB"}

InitBus ==
    /\ running = [a \in BusAgents |-> FALSE]
    /\ handlers = [a \in BusAgents |-> EmptyMap]
    /\ global_handlers = EmptyMap
    /\ roster = << >>
    /\ active_tasks = EmptyMap
    /\ completion_queue = << >>
    /\ files = EmptyMap
    /\ task_counter = 0
    /\ manager_running = FALSE
    /\ retired = {}
    /\ generated = << >>
    /\ last = IdleCall
    /\ trace = << >>

Registrations ==
    LET Sum[S \in SUBSET DOMAIN global_handlers] ==
            IF S = {} THEN 0
            ELSE LET k == CHOOSE x \in S : TRUE IN Len(global_handlers[k]) + Sum[S \ {k}]
    IN  Sum[DOMAIN global_handlers]

\* A2A.on(event_type, handler) on the instance of agent_id
On(agent_id, event_type, handler) ==
    LET key == Key(agent_id, event_type) IN
    /\ Idle
    /\ Registrations < MaxRegs
    /\ handlers' = [handlers EXCEPT ![agent_id] =
                       Store(@, event_type, HandlersGet(agent_id, event_type) \o << handler >>)]
    /\ global_handlers' = Store(global_handlers, key,
                                GlobalGet(key) \o << << agent_id, handler >> >>)
    /\ last' = [op |-> "on", agent |-> agent_id, msg |-> [type |-> event_type],
                fault |-> NoFault, err |-> "none"]
    /\ trace' = << >>
    /\ UNCHANGED << running, roster, active_tasks, completion_queue, files,
                    task_counter, manager_running, retired, generated >>

Register == \E a \in BusAgents, e \in BusTypes, h \in BusHandlers : On(a, e, h)

BusStart == \E a \in BusAgents : Start(a)
BusStop == \E a \in BusAgents : Stop(a)

BusPublish ==
    \E to_agent \in BusAgents \cup {"nobody"}, e \in BusTypes :
        DoSend(to_agent, [type |-> e], NoFault)

NextBus ==
    \/ Register
    \/ BusStart
    \/ BusStop
    \/ BusPublish
    \/ Returned

SpecBus == InitBus /\ [][NextBus]_vars

\* the handlers registered for exactly (agent_id, event_type)
RegisteredFor(agent_id, event_type) ==
    IF agent_id \in DOMAIN handlers
    THEN { HandlersGet(agent_id, event_type)[k] :
               k \in 1..Len(HandlersGet(agent_id, event_type)) }
    ELSE {}

\* C18: a publish to agent A with message type T invokes only handlers that
\* were registered for exactly (A, T), never one registered under another
\* agent id or for another event type.
C18_OnlyRegisteredHandlers ==
    last.op = "send" =>
        \A i \in 1..Len(trace) :
            trace[i][1] = "invoke" =>
                /\ trace[i][2] = last.agent
                /\ trace[i][3] = last.msg.type
                /\ trace[i][4] \in RegisteredFor(last.agent, last.msg.type)

C18_Witness ==
    /\ last.op = "send"
    /\ last.agent = "a"
    /\ last.msg.type = "b:c"
    /\ running["a"]
    /\ RegisteredFor("a", "b:c") = {"hA"}
    /\ RegisteredFor("a:b", "c") = {"hB"}
    /\ DidKind(trace, "invoke")

\* the text holds nothing but whitespace
AllBlank(text) == \A i \in 1..Len(text) : text[i] \in Whitespace

\* C21: when the temp artifact exists and is read but its trimmed content is
\* empty, the pipeline writes nothing to the aggregate and does not create
\* it, attempts to delete the artifact and swallows a failing delete, and
\* removes the task id from the active set and the completion queue.
C21_EmptyArtifact ==
    [][ \A a \in WorkerIds, t \in TaskIds :
          ( /\ Completion(last', a, t)
            /\ Did(trace', << "pipeline", a, t >>)
            /\ SpecPath(a, t) \in DOMAIN files
            /\ AllBlank(files[SpecPath(a, t)])
            /\ last'.fault # << "read_spec", "raise" >> )
          => ( /\ ~DidKind(trace', "fs_write")
               /\ ActiveSpecPath \in DOMAIN files' <=> ActiveSpecPath \in DOMAIN files
               /\ Aggregate(files') = Aggregate(files)
               /\ Did(trace', << "fs_delete" >> \o SpecPath(a, t))
               /\ last'.fault = NoFault => SpecPath(a, t) \notin DOMAIN files'
               /\ last'.err = "none"
               /\ t \notin DOMAIN active_tasks'
               /\ \A i \in 1..Len(completion_queue') : completion_queue'[i].task_id # t
             ) ]_vars

C21_Witness ==
    \E a \in WorkerIds, t \in TaskIds :
        /\ Completion(last, a, t)
        /\ last.fault = << "delete_spec", "raise" >>
        /\ Did(trace, << "empty", a, t >>)
        /\ Did(trace, << "task_del", t >>)
        /\ SpecPath(a, t) \in DOMAIN files
        /\ AllBlank(files[SpecPath(a, t)])
        /\ last.err = "none"

\* the message has no value under the key, or an empty one
Lacks(message, k) == k \notin DOMAIN message \/ message[k] = ""

\* C22: a TASK_COMPLETE that lacks agent_id or task_id, or carries an empty
\* value for either, is ignored: the publisher sees no error, and the active
\* set, the completion queue and Storage are unchanged.
C22_MalformedCompletionIgnored ==
    [][ ( /\ last'.op = "send"
          /\ last'.agent = "librarian"
          /\ WellFormed(last'.msg)
          /\ last'.msg.type = "TASK_COMPLETE"
          /\ Lacks(last'.msg, "agent_id") \/ Lacks(last'.msg, "task_id") )
        => ( /\ last'.err = "none"
             /\ UNCHANGED << active_tasks, completion_queue, files >>
             /\ ~TouchesStorage(trace')
             /\ ~DidKind(trace', "pipeline") ) ]_vars

C22_Witness ==
    /\ last.op = "send"
    /\ last.agent = "librarian"
    /\ last.msg = [type |-> "TASK_COMPLETE", agent_id |-> "", task_id |-> IdTable[1]]
    /\ running["librarian"]
    /\ Did(trace, << "malformed" >>)
    /\ Status(active_tasks, IdTable[1]) = "delegated"
    /\ HasArtifact(files, "probe", IdTable[1])

\* counter values around the places where the formatted number changes width
CounterSamples == {1, 9, 10, 99, 100, 999, 1000}

\* C23: the generator is strictly increasing: the k-th call, whoever makes
\* it, returns the id numbered k, one more than the call before, so no two
\* generated ids are equal; distinct counter values format to distinct ids.
C23_GeneratorIncreasing ==
    /\ Len(generated) = task_counter
    /\ \A k \in 1..Len(generated) : generated[k] = "TASK-" \o ZeroPad(Decimal(k))
    /\ \A i \in 1..Len(generated), j \in 1..Len(generated) :
           i # j => generated[i] # generated[j]
    /\ \A m \in CounterSamples, n \in CounterSamples :
           m < n => FormatTaskId(m) # FormatTaskId(n)

C23_Witness ==
    /\ last.op = "submit"
    /\ last.err = "none"
    /\ Len(generated) = 2
    /\ generated = << IdTable[1], IdTable[2] >>
    /\ last.msg.task_id = generated[2]
    /\ Did(trace, << "status", generated[2], "routing" >>)

\* C24: between top-level calls, Storage never having failed, every record of
\* the active set is DELEGATED with an assigned agent (none rests in ROUTING
\* or COMPLETED) and the completion queue is empty.
C24_QuiescentState ==
    /\ \A t \in DOMAIN active_tasks :
           /\ active_tasks[t].status = "delegated"
           /\ active_tasks[t].assigned_agent # NoneVal
    /\ completion_queue = << >>

C24_Witness ==
    /\ last.op = "send"
    /\ Did(trace, << "consolidated", "writer", IdTable[1] >>)
    /\ Did(trace, << "status", IdTable[1], "completed" >>)
    /\ IdTable[1] \notin DOMAIN active_tasks
    /\ Status(active_tasks, IdTable[2]) = "delegated"
    /\ completion_queue = << >>

----------------------------------------------------------------------------
(* One publish and the chain of handlers it sets off, for every roster and *)
(* every combination of started agents, Storage healthy                    *)

ChainCalls ==
    ( {"librarian"} \X
        ( { [type |-> "NEW_TASK", payload |-> p] : p \in RoutePayloads }
          \cup { [type |-> "NEW_TASK", task_id |-> IdTable[1], payload |-> << "P" >>],
                 [type |-> "TASK_COMPLETE", agent_id |-> "probe", task_id |-> IdTable[1]] } ) )
    \cup ( {"probe"} \X
             { [type |-> "DELEGATED_TASK", task_id |-> IdTable[1], payload |-> << "P" >>] } )

InitChain ==
    /\ roster \in Rosters
    /\ running \in [Instances -> BOOLEAN]
    /\ handlers = InitHandlers
    /\ global_handlers = InitGlobalHandlers
    /\ active_tasks = EmptyMap
    /\ completion_queue = << >>
    /\ files = EmptyMap
    /\ task_counter = 0
    /\ manager_running = FALSE
    /\ retired = {}
    /\ generated = << >>
    /\ last = IdleCall
    /\ trace = << >>

WithinChainBounds(r) ==
    /\ r.task_counter <= MaxChainTasks
    /\ Len(r.completion_queue) <= MaxQueue
    /\ ActiveSpecPath \in DOMAIN r.files =>
           EntryCount(r.files[ActiveSpecPath]) <= MaxChainTasks

ChainPublish ==
    /\ Idle
    /\ \E c \in ChainCalls :
           LET r == Send(Begin(NoFault), c[1], c[2]) IN
           /\ WithinChainBounds(r)
           /\ Commit(r)
           /\ last' = [op |-> "send", agent |-> c[1], msg |-> c[2],
                       fault |-> NoFault, err |-> r.err]
           /\ UNCHANGED << running, handlers, global_handlers, roster, manager_running >>

NextChain ==
    \/ ChainPublish
    \/ Returned

SpecChain == InitChain /\ [][NextChain]_vars

\* the event types of the handlers still running after the first n events
RECURSIVE Running(_, _)
Running(tr, n) ==
    IF n = 0 THEN << >>
    ELSE LET before == Running(tr, n - 1) IN
         CASE tr[n][1] = "invoke" -> Append(before, tr[n][3])
           [] tr[n][1] = "return" -> SubSeq(before, 1, Len(before) - 1)
           [] OTHER -> before

\* NEW_TASK sets off DELEGATED_TASK, which sets off TASK_COMPLETE
Stage(event_type) ==
    CASE event_type = "NEW_TASK" -> 1
      [] event_type = "DELEGATED_TASK" -> 2
      [] event_type = "TASK_COMPLETE" -> 3
      [] OTHER -> 0

----------------------------------------------------------------------------
(* Manager.submit_task and the running flag                                *)

Published(tr) == { i \in 1..Len(tr) : tr[i][1] = "publish" }
Recorded(tr) == { tr[i][2] : i \in { j \in 1..Len(tr) : tr[j][1] = "status" /\ tr[j][3] = "routing" } }

\* C26: submit_task called while the system is not running (before
\* Manager.start or after Manager.stop) raises an error, generates no task id,
\* publishes nothing and leaves the coordinator's active set as it was; called
\* while running it returns the id it generated, which is the id of the
\* NEW_TASK message and the only id the coordinator makes a record under.
C26_SubmitRequiresRunning ==
    [][ last'.op = "submit" =>
          IF ~manager_running
          THEN /\ last'.err = "RuntimeError"
               /\ task_counter' = task_counter
               /\ generated' = generated
               /\ Published(trace') = {}
               /\ trace' = << >>
               /\ active_tasks' = active_tasks
          ELSE /\ last'.err = "none"
               /\ Len(generated') = Len(generated) + 1
               /\ last'.msg.task_id = generated'[Len(generated')]
               /\ Recorded(trace') = { last'.msg.task_id }
       ]_vars

C26_Witness ==
    /\ last.op = "submit"
    /\ last.err = "none"
    /\ manager_running
    /\ Len(generated) = 2
    /\ last.msg.task_id = generated[2]
    /\ last.msg.task_id \in DOMAIN active_tasks
    /\ active_tasks[last.msg.task_id].task_id = generated[2]

====
